---------------------------- MODULE Spec2Model ----------------------------
(***************************************************************************)
(* Static-model integer arithmetic coder of src/Arrifmetic_coding.cpp:     *)
(* compressArithmetic, decompressArithmetic, BitWriter, BitReader,         *)
(* buildCum and findSymbol.                                                *)
(*                                                                         *)
(* Widths.  The source codes with BITS = 32 bits of precision, keeps the   *)
(* frequencies, cum, total, origSize and pending in uint32_t (32 = BITS    *)
(* bits) and low, high, value, range in uint64_t (64 = 2*BITS bits).  TLC  *)
(* computes with 32-bit integers, so the model keeps the same structure    *)
(* at a smaller word: BITS is the width of the coder and of a uint32_t     *)
(* (modulus Word), 2*BITS the width of a uint64_t (modulus Wide), and       *)
(* every operation wraps exactly where the source's does.  The alphabet    *)
(* has NSym byte values instead of 256.                                    *)
(***************************************************************************)
EXTENDS Integers, Sequences, FiniteSets, TLC

\* ---------------------------------------------------------------- bounds
BITS       == 3   \* coder precision = width of uint32_t (32 in the source)
NSym       == 3   \* number of byte values (256 in the source)
MaxLen     == 6   \* every input file up to this length is compressed
MaxLong    == 13  \* longest of the input files made of three runs
MaxBits    == 24  \* the encoder is followed until it has written this many bits
MaxOrig    == 4   \* largest origSize of a hand-made container
MaxPayload == 1   \* most payload bytes of a hand-made container

\* ------------------------------------------------------ program constants
ByteBits == 8            \* BitWriter / BitReader pack 8 bits per byte
MAGIC    == 1095910193   \* 0x41524331

RECURSIVE Pow2(_)
Pow2(n) == IF n = 0 THEN 1 ELSE 2 * Pow2(n - 1)

Word == Pow2(BITS)        \* modulus of uint32_t
Wide == Pow2(2 * BITS)    \* modulus of uint64_t
Byte == Pow2(ByteBits)    \* modulus of uint8_t

U32(x) == x % Word
U64(x) == x % Wide

MAX_VALUE      == Pow2(BITS) - 1
HALF           == (MAX_VALUE \div 2) + 1
QUARTER        == HALF \div 2
THREE_QUARTERS == QUARTER * 3

Syms == 0 .. (NSym - 1)

\* bitsRead is a 64-bit counter the code only compares with encodedBitCount;
\* the model counts it exactly up to ReadCap, above every encodedBitCount it
\* holds, and keeps it there, which preserves every such comparison.
ReadCap == 2 * MaxBits + ByteBits * (MaxPayload + 1)

\* ------------------------------------------------------------- BitWriter
\* A writer is [buf, bits, totalBits, out]: buf_, bits_, totalBits_ and the
\* bytes put to the stream so far.
NewWriter == [buf |-> 0, bits |-> 0, totalBits |-> 0, out |-> << >>]

flushByte(w) == [w EXCEPT !.out = Append(w.out, w.buf), !.buf = 0, !.bits = 0]

writeBit(w, b) ==
    LET w1 == [w EXCEPT !.buf = (2 * w.buf + b) % Byte,
                        !.bits = w.bits + 1,
                        !.totalBits = U64(w.totalBits + 1)]
    IN  IF w1.bits = ByteBits THEN flushByte(w1) ELSE w1

flushFinal(w) ==
    IF w.bits = 0 THEN w
    ELSE flushByte([w EXCEPT !.buf = (w.buf * Pow2(ByteBits - w.bits)) % Byte])

\* outputBit: the stable bit, then the inverse bit while pending > 0.
RECURSIVE FlushPending(_, _, _)
FlushPending(w, p, bit) ==
    IF p > 0 THEN FlushPending(writeBit(w, 1 - bit), p - 1, bit) ELSE w

outputBit(w, p, bit) == FlushPending(writeBit(w, bit), p, bit)

\* ------------------------------------------------------------- BitReader
\* A reader is [buf, bitsLeft, next]: buf_, bitsLeft_ and the index of the
\* next payload byte of the stream.  readBit gives [ok, bit, r].
NewReader == [buf |-> 0, bitsLeft |-> 0, next |-> 1]

readBit(r, payload) ==
    IF r.bitsLeft = 0 /\ r.next > Len(payload)
    THEN [ok |-> FALSE, bit |-> 0, r |-> r]
    ELSE LET r1 == IF r.bitsLeft = 0
                   THEN [buf |-> payload[r.next], bitsLeft |-> ByteBits,
                         next |-> r.next + 1]
                   ELSE r
         IN  [ok  |-> TRUE,
              bit |-> (r1.buf \div Pow2(r1.bitsLeft - 1)) % 2,
              r   |-> [r1 EXCEPT !.bitsLeft = r1.bitsLeft - 1]]

\* The bits of bytes in the order readBit hands them out: most significant
\* bit of the first byte first.
BitsOfByte(b) == [k \in 1 .. ByteBits |-> (b \div Pow2(ByteBits - k)) % 2]

RECURSIVE UnpackBytes(_)
UnpackBytes(bs) ==
    IF bs = << >> THEN << >>
    ELSE BitsOfByte(Head(bs)) \o UnpackBytes(Tail(bs))

\* Every bit a writer has been given: its flushed bytes, then the bits_ bits
\* still in buf_.
WriterBits(w) ==
    UnpackBytes(w.out)
        \o [k \in 1 .. w.bits |-> (w.buf \div Pow2(w.bits - k)) % 2]

\* A reader lambda that forgets the bit budget and hands out whatever the
\* stream holds (C7 must tell it from readOneBit).
readOneBitNoBudget(r, n, count, payload) ==
    LET got == readBit(r, payload)
    IN  [bit |-> got.bit, r |-> got.r,
         bitsRead |-> IF n < ReadCap THEN n + 1 ELSE n]

\* readOneBit: a real bit while bitsRead < encodedBitCount and the stream
\* gives one, else 0; bitsRead counts every request.
readOneBit(r, n, count, payload) ==
    LET got == readBit(r, payload)
        n1  == IF n < ReadCap THEN n + 1 ELSE n
    IN  IF n < count /\ got.ok
        THEN [bit |-> got.bit, r |-> got.r, bitsRead |-> n1]
        ELSE IF n < count
             THEN [bit |-> 0, r |-> got.r, bitsRead |-> n1]
             ELSE [bit |-> 0, r |-> r, bitsRead |-> n1]

\* -------------------------------------------------------- frequency model
ZeroFreq == [s \in Syms |-> 0]

RECURSIVE CountFreq(_, _, _)
CountFreq(d, k, f) ==
    IF k > Len(d) THEN f
    ELSE CountFreq(d, k + 1, [f EXCEPT ![d[k]] = U32(f[d[k]] + 1)])

RECURSIVE SumFreq(_, _)
SumFreq(f, n) == IF n = 0 THEN 0 ELSE U64(SumFreq(f, n - 1) + f[n - 1])

\* cum[0] = 0 and cum[i+1] = (uint32_t) of the 64-bit running sum.
buildCum(f) == [i \in 0 .. NSym |-> U32(SumFreq(f, i))]

RECURSIVE FindFrom(_, _, _)
FindFrom(scaled, c, s) ==
    IF s >= NSym THEN NSym - 1
    ELSE IF scaled < c[s + 1] THEN s
    ELSE FindFrom(scaled, c, s + 1)

\* A search that is off by one in its comparison, scaled <= cum[s+1] - 1
\* read as scaled + 1 < cum[s+1] (C5 must tell it from findSymbol).
findSymbolOffByOne(scaled, c) == FindFrom(scaled + 1, c, 0)

findSymbol(scaled, c) == FindFrom(scaled, c, 0)

\* ------------------------------------------------------- interval updates
\* newHigh = low + (range * cum[s+1]) / total - 1, newLow = low + (range *
\* cum[s]) / total, in uint64_t.
Narrow(lo, hi, c, tot, s) ==
    LET range == U64(hi - lo + 1)
    IN  [low  |-> U64(lo + (U64(range * c[s]) \div tot)),
         high |-> U64(U64(lo + (U64(range * c[s + 1]) \div tot)) - 1)]

ShiftLow(lo)  == U64(2 * lo)
ShiftHigh(hi) == U64(2 * hi) + 1

IsE2(lo, hi) == hi < HALF
IsE3(lo, hi) == ~IsE2(lo, hi) /\ lo >= HALF
IsE1(lo, hi) == ~IsE2(lo, hi) /\ ~IsE3(lo, hi)
                /\ lo >= QUARTER /\ hi < THREE_QUARTERS
IsStable(lo, hi) == ~IsE2(lo, hi) /\ ~IsE3(lo, hi) /\ ~IsE1(lo, hi)


\* ----------------------------------------------------------------- state
VARIABLES
    pc,        \* where the program is: main, the c_ steps of compressArithmetic,
               \* the d_ steps of decompressArithmetic
    data,      \* the file given to compress: a sequence of byte values
    file,      \* the container file: compress's output, decompress's input
    outFile,   \* the file decompress writes
    err,       \* the diagnostic printed to cerr ("" when none)
    freq, cum, total,      \* the frequency model of the running operation
    low, high,             \* the interval
    pending,               \* encoder: deferred underflow bits
    pos,                   \* encoder: symbols consumed; decoder: produced
    bw,                    \* encoder: the BitWriter
    br, bitsRead, value,   \* decoder: the BitReader, its request count, value
    hist,                  \* encoder: <<low, high, bits + pending>> at each
                           \* symbol boundary (history, read by no action)
    emitted                \* encoder: the bits it has decided to emit, in
                           \* order (history, read by no action)

vars == <<pc, data, file, outFile, err, freq, cum, total, low, high, pending,
          pos, bw, br, bitsRead, value, hist, emitted>>

coder == <<freq, cum, total, low, high, pending, pos, bw, br, bitsRead,
           value, hist, emitted>>

\* The container file: exists, cut ("full", or where a short file ends:
\* "magic" inside the first 8 bytes, "header" inside the table or the bit
\* count), and the header fields and the payload bytes.
NoContainer ==
    [exists |-> FALSE, cut |-> "full", magic |-> 0, origSize |-> 0,
     freq |-> ZeroFreq, encodedBitCount |-> 0, payload |-> << >>]

NoOutput == [opened |-> FALSE, bytes |-> << >>]

\* The files the model starts from.
Inputs == UNION {[1 .. n -> Syms] : n \in 0 .. MaxLen}

\* Longer inputs, up to MaxLong bytes: three runs of three different byte
\* values.  Those of Word bytes and more are the files at least as long as
\* the modulus of the 32-bit counters (4 GiB in the source).
Rep(sym, n) == [k \in 1 .. n |-> sym]

RunInputs ==
    {Rep(a, i) \o Rep(b, j) \o Rep(c, k) :
        <<a, b, c, i, j, k>> \in
            {t \in Syms \X Syms \X Syms
                    \X (1 .. MaxLong) \X (1 .. MaxLong) \X (1 .. MaxLong) :
                /\ t[1] # t[2] /\ t[2] # t[3] /\ t[1] # t[3]
                /\ t[4] + t[5] + t[6] <= MaxLong}}

FreqVals     == {0, 1, 2, Word - 1}
PayloadBytes == {165, 255}
Payloads     == UNION {[1 .. n -> PayloadBytes] : n \in 0 .. MaxPayload}
BitCounts    == {0, BITS + 1, ByteBits * MaxPayload + 2}

Crafted ==
    [exists : {TRUE}, cut : {"full"}, magic : {MAGIC},
     origSize : {0, 1, MaxOrig}, freq : [Syms -> FreqVals],
     encodedBitCount : BitCounts, payload : Payloads]
    \cup
    [exists : {TRUE}, cut : {"full", "magic", "header"}, magic : {MAGIC, 0},
     origSize : {1}, freq : {ZeroFreq, [ZeroFreq EXCEPT ![0] = 1]},
     encodedBitCount : {0}, payload : {<< >>}]

Init ==
    /\ pc = "main"
    /\ \/ data \in Inputs \cup RunInputs /\ file = NoContainer
       \/ data = << >> /\ file \in Crafted
    /\ outFile = NoOutput
    /\ err = ""
    /\ freq = ZeroFreq
    /\ cum = buildCum(ZeroFreq)
    /\ total = 0
    /\ low = 0 /\ high = 0 /\ pending = 0 /\ pos = 0
    /\ bw = NewWriter
    /\ br = NewReader /\ bitsRead = 0 /\ value = 0
    /\ hist = << >>
    /\ emitted = << >>

Fail(p, msg) ==
    /\ pc' = p
    /\ err' = msg

\* ------------------------------------------------------------------ main
\* Any choice but 1 and 2: "Wrong choice", nothing is read or written.
MainWrong ==
    /\ pc = "main"
    /\ pc' = "exit"
    /\ UNCHANGED <<data, file, outFile, err, coder>>

\* ------------------------------------------------------ compressArithmetic
\* Lines 145-199: read the input, count, buildCum, open the output and
\* write the header with a zero encodedBitCount.
CompressStart(canOpen, canCreate) ==
    LET f == CountFreq(data, 1, ZeroFreq)
        c == buildCum(f)
    IN  IF ~canOpen
        THEN Fail("c_failed", "Cannot open input")
             /\ UNCHANGED <<data, file, outFile, coder>>
        ELSE IF data = << >>
        THEN Fail("c_failed", "Input is empty.")
             /\ UNCHANGED <<data, file, outFile, coder>>
        ELSE IF c[NSym] = 0
        THEN Fail("c_failed", "Bad total.")
             /\ freq' = f /\ cum' = c /\ total' = c[NSym]
             /\ UNCHANGED <<data, file, outFile, low, high, pending, pos, bw,
                            br, bitsRead, value, hist, emitted>>
        ELSE IF ~canCreate
        THEN Fail("c_failed", "Cannot create output")
             /\ freq' = f /\ cum' = c /\ total' = c[NSym]
             /\ low' = 0 /\ high' = MAX_VALUE /\ pending' = 0
             /\ UNCHANGED <<data, file, outFile, pos, bw, br, bitsRead,
                            value, hist, emitted>>
        ELSE /\ pc' = "c_sym"
             /\ freq' = f /\ cum' = c /\ total' = c[NSym]
             /\ low' = 0 /\ high' = MAX_VALUE /\ pending' = 0
             /\ pos' = 0
             /\ bw' = NewWriter
             /\ file' = [exists |-> TRUE, cut |-> "full", magic |-> MAGIC,
                         origSize |-> U32(Len(data)), freq |-> f,
                         encodedBitCount |-> 0, payload |-> << >>]
             /\ hist' = << <<0, MAX_VALUE, 0>> >>
             /\ emitted' = << >>
             /\ UNCHANGED <<data, outFile, err, br, bitsRead, value>>

MainCompress ==
    /\ pc = "main"
    /\ \E canOpen \in BOOLEAN, canCreate \in BOOLEAN :
           CompressStart(canOpen, canCreate)

\* Lines 211-219: the next symbol narrows the interval.
EncNarrow ==
    /\ pc = "c_sym"
    /\ pos < Len(data)
    /\ LET n == Narrow(low, high, cum, total, data[pos + 1])
       IN  low' = n.low /\ high' = n.high
    /\ pc' = "c_renorm"
    /\ UNCHANGED <<data, file, outFile, err, freq, cum, total, pending, pos,
                   bw, br, bitsRead, value, hist, emitted>>

SetWriter(w) ==
    /\ bw' = w
    /\ file' = [file EXCEPT !.payload = w.out]

\* "Emit bit b (plus pending)": b, then the inverse of b once for each of
\* the n deferred bits.  What the history records, whatever the writer did.
Emission(b, n) == <<b>> \o [k \in 1 .. n |-> 1 - b]

\* Lines 223-224, 237-238: high < HALF.
EncE2 ==
    /\ pc = "c_renorm"
    /\ bw.totalBits < MaxBits
    /\ IsE2(low, high)
    /\ SetWriter(outputBit(bw, pending, 0))
    /\ emitted' = emitted \o Emission(0, pending)
    /\ pending' = 0
    /\ low' = ShiftLow(low)
    /\ high' = ShiftHigh(high)
    /\ UNCHANGED <<pc, data, outFile, err, freq, cum, total, pos, br,
                   bitsRead, value, hist>>

\* Lines 225-228, 237-238: low >= HALF.
EncE3 ==
    /\ pc = "c_renorm"
    /\ bw.totalBits < MaxBits
    /\ IsE3(low, high)
    /\ SetWriter(outputBit(bw, pending, 1))
    /\ emitted' = emitted \o Emission(1, pending)
    /\ pending' = 0
    /\ low' = ShiftLow(U64(low - HALF))
    /\ high' = ShiftHigh(U64(high - HALF))
    /\ UNCHANGED <<pc, data, outFile, err, freq, cum, total, pos, br,
                   bitsRead, value, hist>>

\* Lines 229-232, 237-238: the interval straddles HALF inside the middle.
EncE1 ==
    /\ pc = "c_renorm"
    /\ bw.totalBits < MaxBits
    /\ IsE1(low, high)
    /\ pending' = U32(pending + 1)
    /\ low' = ShiftLow(U64(low - QUARTER))
    /\ high' = ShiftHigh(U64(high - QUARTER))
    /\ UNCHANGED <<pc, data, file, outFile, err, freq, cum, total, pos, bw,
                   br, bitsRead, value, hist, emitted>>

\* Lines 233-235: break, on to the next symbol.
EncBreak ==
    /\ pc = "c_renorm"
    /\ IsStable(low, high)
    /\ pos' = pos + 1
    /\ hist' = Append(hist, <<low, high, bw.totalBits + pending>>)
    /\ pc' = IF pos + 1 < Len(data) THEN "c_sym" ELSE "c_final"
    /\ UNCHANGED <<data, file, outFile, err, freq, cum, total, low, high,
                   pending, bw, br, bitsRead, value, emitted>>

\* Lines 243-245: one more pending bit, then the disambiguating bit.
FinalBit(lo) == IF lo < QUARTER THEN 0 ELSE 1

EncFinalBit ==
    /\ pc = "c_final"
    /\ SetWriter(outputBit(bw, U32(pending + 1), FinalBit(low)))
    /\ emitted' = emitted \o Emission(FinalBit(low), U32(pending + 1))
    /\ pending' = 0
    /\ pc' = "c_close"
    /\ UNCHANGED <<data, outFile, err, freq, cum, total, low, high, pos, br,
                   bitsRead, value, hist>>

\* A close that counts the padding of the last byte as written bits (C3 must
\* tell it from CloseWriter).
CloseWriterCountsPadding(w) ==
    LET f == flushFinal(w)
    IN  [f EXCEPT !.totalBits = ByteBits * Len(f.out)]

\* Lines 248-254: pad the last byte, write encodedBitCount, close.
CloseWriter(w) == flushFinal(w)

EncClose ==
    /\ pc = "c_close"
    /\ LET w == CloseWriter(bw)
       IN  /\ bw' = w
           /\ file' = [file EXCEPT !.payload = w.out,
                                   !.encodedBitCount = w.totalBits]
    /\ pc' = "c_done"
    /\ UNCHANGED <<data, outFile, err, freq, cum, total, low, high, pending,
                   pos, br, bitsRead, value, hist, emitted>>

Compress ==
    \/ MainCompress \/ EncNarrow \/ EncE2 \/ EncE3 \/ EncE1 \/ EncBreak
    \/ EncFinalBit \/ EncClose

\* ---------------------------------------------------- decompressArithmetic
\* A header check that only notices a file too short to hold the magic (C8
\* must tell it from BadFormat).
BadFormatShortOnly(f) == f.cut = "magic"

\* Lines 287-292: the magic cannot be read, or is not MAGIC.
BadFormat(f) == f.cut = "magic" \/ f.magic # MAGIC

\* Lines 277-326: open the input, read and check the header, buildCum,
\* set low, high, value, the reader and bitsRead.
DecompressStart ==
    LET c == buildCum(file.freq)
    IN  IF ~file.exists
        THEN Fail("d_failed", "Cannot open input")
             /\ UNCHANGED <<data, file, outFile, coder>>
        ELSE IF BadFormat(file)
        THEN Fail("d_failed", "Bad format.")
             /\ UNCHANGED <<data, file, outFile, coder>>
        ELSE IF file.cut = "header"
        THEN Fail("d_failed", "Header read error.")
             /\ UNCHANGED <<data, file, outFile, coder>>
        ELSE IF c[NSym] = 0
        THEN Fail("d_failed", "Bad total.")
             /\ freq' = file.freq /\ cum' = c /\ total' = c[NSym]
             /\ UNCHANGED <<data, file, outFile, low, high, pending, pos, bw,
                            br, bitsRead, value, hist, emitted>>
        ELSE /\ pc' = "d_init"
             /\ freq' = file.freq /\ cum' = c /\ total' = c[NSym]
             /\ low' = 0 /\ high' = MAX_VALUE /\ value' = 0
             /\ br' = NewReader /\ bitsRead' = 0
             /\ pos' = 0
             /\ UNCHANGED <<data, file, outFile, err, pending, bw, hist, emitted>>

\* The program is started with choice 2: at once on a file that is there,
\* or again after a compression, on the container that one wrote.
MainDecompress ==
    /\ pc \in {"main", "c_done"}
    /\ DecompressStart

\* Line 340: one of the BITS reads that fill value.
DecInitBit ==
    /\ pc = "d_init"
    /\ bitsRead < BITS
    /\ LET rd == readOneBit(br, bitsRead, file.encodedBitCount, file.payload)
       IN  /\ value' = U64(2 * value) + rd.bit
           /\ br' = rd.r
           /\ bitsRead' = rd.bitsRead
    /\ UNCHANGED <<pc, data, file, outFile, err, freq, cum, total, low, high,
                   pending, pos, bw, hist, emitted>>

\* Lines 343-347: the output file is opened only now.
DecOpen ==
    /\ pc = "d_init"
    /\ bitsRead >= BITS
    /\ \E canCreate \in BOOLEAN :
          IF canCreate
          THEN /\ pc' = "d_sym"
               /\ outFile' = [opened |-> TRUE, bytes |-> << >>]
               /\ UNCHANGED err
          ELSE /\ Fail("d_failed", "Cannot create output")
               /\ UNCHANGED outFile
    /\ UNCHANGED <<data, file, coder>>

\* Line 354: scaled, in uint64_t.
Scaled(v, lo, tot, range) ==
    U64(U64(U64(v - lo + 1) * tot) - 1) \div range

\* Lines 350-364: one symbol: scaled, findSymbol, put, narrow.  A zero range
\* makes line 354 a division by zero, which is undefined: the run may trap,
\* or go on with any quotient.
DecSymbolWith(scaled) ==
    LET sym == findSymbol(U32(scaled), cum)
        n   == Narrow(low, high, cum, total, sym)
    IN  /\ outFile' = [outFile EXCEPT !.bytes = Append(outFile.bytes, sym)]
        /\ low' = n.low /\ high' = n.high
        /\ pc' = "d_renorm"

DecSymbol ==
    /\ pc = "d_sym"
    /\ pos < file.origSize
    /\ LET range == U64(high - low + 1)
       IN  IF range # 0
           THEN DecSymbolWith(Scaled(value, low, total, range))
           ELSE \/ pc' = "d_trap" /\ UNCHANGED <<outFile, low, high>>
                \/ \E q \in 0 .. (Word - 1) : DecSymbolWith(q)
    /\ UNCHANGED <<data, file, err, freq, cum, total, pending, pos, bw, br,
                   bitsRead, value, hist, emitted>>

\* Line 383: value = (value << 1) | readOneBit().
PullBit(v) ==
    LET rd == readOneBit(br, bitsRead, file.encodedBitCount, file.payload)
    IN  /\ value' = U64(2 * v) + rd.bit
        /\ br' = rd.r
        /\ bitsRead' = rd.bitsRead

\* Lines 368, 381-383.
DecE2 ==
    /\ pc = "d_renorm"
    /\ IsE2(low, high)
    /\ low' = ShiftLow(low)
    /\ high' = ShiftHigh(high)
    /\ PullBit(value)
    /\ UNCHANGED <<pc, data, file, outFile, err, freq, cum, total, pending,
                   pos, bw, hist, emitted>>

\* Lines 369-372, 381-383.
DecE3 ==
    /\ pc = "d_renorm"
    /\ IsE3(low, high)
    /\ low' = ShiftLow(U64(low - HALF))
    /\ high' = ShiftHigh(U64(high - HALF))
    /\ PullBit(U64(value - HALF))
    /\ UNCHANGED <<pc, data, file, outFile, err, freq, cum, total, pending,
                   pos, bw, hist, emitted>>

\* Lines 373-376, 381-383.
DecE1 ==
    /\ pc = "d_renorm"
    /\ IsE1(low, high)
    /\ low' = ShiftLow(U64(low - QUARTER))
    /\ high' = ShiftHigh(U64(high - QUARTER))
    /\ PullBit(U64(value - QUARTER))
    /\ UNCHANGED <<pc, data, file, outFile, err, freq, cum, total, pending,
                   pos, bw, hist, emitted>>

\* Lines 377-379 and the loop header of line 350.
DecBreak ==
    /\ pc = "d_renorm"
    /\ IsStable(low, high)
    /\ pos' = U32(pos + 1)
    /\ pc' = "d_sym"
    /\ UNCHANGED <<data, file, outFile, err, freq, cum, total, low, high,
                   pending, bw, br, bitsRead, value, hist, emitted>>

\* Line 387: produced reached origSize; close.
DecFinish ==
    /\ pc = "d_sym"
    /\ pos >= file.origSize
    /\ pc' = "d_done"
    /\ UNCHANGED <<data, file, outFile, err, coder>>

Decompress ==
    \/ MainDecompress \/ DecInitBit \/ DecOpen \/ DecSymbol
    \/ DecE2 \/ DecE3 \/ DecE1 \/ DecBreak \/ DecFinish

Next == MainWrong \/ Compress \/ Decompress

Spec == Init /\ [][Next]_vars

\* ================================================================ claims
\* The states in which low and high hold a coding interval.
EncoderAt == pc \in {"c_sym", "c_renorm", "c_final"}
DecoderAt == pc \in {"d_sym", "d_renorm"}

\* A step of the decoder that asks readOneBit for a bit.
ReadsBit ==
    \/ pc = "d_init" /\ bitsRead < BITS
    \/ pc = "d_renorm" /\ ~IsStable(low, high)

\* The byte stream behind the reader has nothing left.
StreamEnded == br.bitsLeft = 0 /\ br.next > Len(file.payload)

\* C1: compressing a non-empty input and decompressing the container gives
\* back the input, byte for byte and of the same length.  Stated here for
\* the input files shorter than the modulus of the 32-bit counters, whose
\* origSize and frequencies the header holds exactly.
C1_RoundTrip ==
    (pc = "d_done" /\ data # << >> /\ Len(data) < Word)
        => outFile.bytes = data

\* C2: after every narrowing step and every renormalization iteration, of
\* the encoder and of the decoder, low <= high.  Stated here for the runs
\* on input files shorter than the modulus of the 32-bit counters.
C2_LowLeHigh ==
    (data # << >> /\ Len(data) < Word /\ (EncoderAt \/ DecoderAt))
        => low <= high

\* C3: the encodedBitCount of the finished container is the number of bits
\* the encoder emitted (renormalization, pending and finalization bits); the
\* zero bits that pad the last byte are in the payload and are not counted.
C3_BitCountExact ==
    pc = "c_done" =>
        /\ file.encodedBitCount = Len(emitted)
        /\ Len(file.payload) = (Len(emitted) + ByteBits - 1) \div ByteBits
        /\ UnpackBytes(file.payload)
              = emitted \o [k \in 1 .. (ByteBits * Len(file.payload)
                                           - Len(emitted)) |-> 0]

C3_Witness ==
    /\ pc = "c_done"
    /\ Len(emitted) > ByteBits
    /\ Len(emitted) % ByteBits # 0

\* C4: pending bits are never lost: every underflow step adds exactly one
\* to pending, and every outputBit writes its bit followed by exactly one
\* inverse bit for each underflow since the last emission (one more at
\* finalization), leaving pending at zero.
C4_PendingNeverLost ==
    [][ /\ (pc = "c_renorm" /\ IsE1(low, high))
            => (pending' = pending + 1 /\ WriterBits(bw') = WriterBits(bw))
        /\ (pc = "c_renorm" /\ IsE2(low, high))
            => /\ WriterBits(bw') = WriterBits(bw) \o Emission(0, pending)
               /\ pending' = 0
        /\ (pc = "c_renorm" /\ IsE3(low, high))
            => /\ WriterBits(bw') = WriterBits(bw) \o Emission(1, pending)
               /\ pending' = 0
        /\ (pc = "c_final")
            => /\ WriterBits(bw')
                    = WriterBits(bw) \o Emission(FinalBit(low), pending + 1)
               /\ pending' = 0
      ]_vars

C6_DecoderCompletes ==
    /\ pc # "d_trap"
    /\ pc = "d_done" => Len(outFile.bytes) = file.origSize

\* C7: once encodedBitCount bits have been asked for, or the byte stream has
\* ended, every further bit the decoder asks for is 0, and the decoder goes
\* on without an error.
C7_TailReadsZero ==
    [][ (ReadsBit /\ (bitsRead >= file.encodedBitCount \/ StreamEnded))
            => /\ value' % 2 = 0
               /\ pc' \in {"d_init", "d_renorm"}
               /\ err' = err
      ]_vars

C7_Witness ==
    /\ DecoderAt
    /\ bitsRead > file.encodedBitCount
    /\ ByteBits * Len(file.payload) > file.encodedBitCount
    /\ \E k \in 1 .. Len(file.payload) : file.payload[k] = Byte - 1

\* C8: an empty input, a wrong magic and a zero total end the operation
\* with its error and with no output file made or written to; coding starts
\* only past these checks, and nothing runs after the error.
C8_NoOutputOnFailure ==
    [][ /\ (pc' = "c_sym") => (data # << >> /\ total' # 0)
        /\ (pc' = "d_init")
            => (file.cut # "magic" /\ file.magic = MAGIC /\ total' # 0)
        /\ (pc' = "c_failed" /\ err' \in {"Input is empty.", "Bad total."})
            => (file' = file /\ outFile' = NoOutput)
        /\ (pc' = "d_failed" /\ err' \in {"Bad format.", "Bad total."})
            => (file' = file /\ outFile' = NoOutput)
        /\ pc \notin {"c_failed", "d_failed"}
      ]_vars

C8_Witness ==
    /\ pc = "d_failed" /\ err = "Bad format."
    /\ file.exists /\ file.cut = "full" /\ file.magic # MAGIC
    /\ outFile = NoOutput

\* C9: decoding a container the encoder made from a non-empty input, the
\* scaled of every symbol is defined and 0 <= scaled < total, so findSymbol's
\* fallback is never taken.
C9_ScaledInRange ==
    (pc = "d_sym" /\ pos < file.origSize /\ data # << >>) =>
        LET range == U64(high - low + 1)
        IN  range # 0 /\ Scaled(value, low, total, range) < total

\* C10: the cumulative table is the table of prefix sums of the frequencies:
\* cum[0] = 0, cum[i+1] = cum[i] + freq[i], non-decreasing, and total =
\* cum[NSym] is the sum of all the frequencies.
C10_CumShape ==
    LET RECURSIVE Sum(_)
        Sum(n) == IF n = 0 THEN 0 ELSE Sum(n - 1) + freq[n - 1]
    IN  /\ cum[0] = 0
        /\ \A i \in Syms : cum[i + 1] = cum[i] + freq[i] /\ cum[i] <= cum[i + 1]
        /\ total = cum[NSym] /\ total = Sum(NSym)

\* C11: the decoder mirrors the encoder: decoding the container made from
\* input D, after producing k bytes the decoder's (low, high) are the
\* encoder's after consuming the first k bytes of D, and the bits it has
\* shifted into value while renormalizing are as many as the bits plus
\* pending increments of the encoder over those k symbols.  Stated here for
\* the input files shorter than the modulus of the 32-bit counters.
C11_DecoderMirrors ==
    (pc = "d_sym" /\ data # << >> /\ Len(data) < Word) =>
        /\ pos + 1 <= Len(hist)
        /\ low = hist[pos + 1][1]
        /\ high = hist[pos + 1][2]
        /\ bitsRead - BITS = hist[pos + 1][3]

\* C12: at the start of every symbol step of the encoder and of the decoder,
\* at first and after each exit of the renormalization loop,
\* 0 <= low < HALF <= high <= MAX_VALUE and not (low >= QUARTER and high <
\* THREE_QUARTERS), so the range is above QUARTER and low, high stay inside
\* the BITS-bit domain.  Stated here for the input files shorter than the
\* modulus of the 32-bit counters.
C12_Renormalized ==
    (data # << >> /\ Len(data) < Word /\ pc \in {"c_sym", "c_final", "d_sym"})
        => /\ 0 <= low /\ low < HALF /\ HALF <= high /\ high <= MAX_VALUE
           /\ ~(low >= QUARTER /\ high < THREE_QUARTERS)
           /\ high - low + 1 > QUARTER

=============================================================================
